---- MODULE Spec2Model ----
(***************************************************************************)
(* A model of the identifier and causal-versioning layer of swarm:         *)
(*   - LamportClock  (src/unnamed/part_000)                                *)
(*   - Spec, the specifier (src/swarm-protocol/src/Spec.js)                *)
(* Strings are sequences of one-character strings, so that the grammar,    *)
(* the parser and the serializer are computed character by character.      *)
(***************************************************************************)
EXTENDS Integers, Sequences, FiniteSets

VARIABLES
    \* ---- LamportClock instances, keyed by the process they belong to
    id,          \* this.id of every clock
    seq,         \* this.seq of every clock
    issued,      \* per clock: the timestamps it has issued, in order
    observed,    \* per clock: has checkTimestamp been called on it
    seenMax,     \* per clock: largest sequence number among the observed
                 \* timestamps that some modelled clock had issued (-1: none)
    clast,       \* the last clock call and its outcome
    \* ---- Spec, string side: one input string and the calls made on it
    input,       \* the string under test
    lastIndex,   \* Spec.reSpec.lastIndex
    obj,         \* the Spec constructed last (its 4 tokens), or NoSpec
    slast,       \* the last Spec call and its outcome
    \* ---- Spec, object side: a heap of Spec instances
    bufs,        \* the 4-slot arrays (_toks buffers) that are reachable
    specs,       \* per Spec instance: the index of its _toks buffer
    created,     \* per Spec instance: how it was made, and its tokens then
    hlast        \* the last call on the heap and its outcome

clockVars == <<id, seq, issued, observed, seenMax, clast>>
stringVars == <<input, lastIndex, obj, slast>>
heapVars == <<bufs, specs, created, hlast>>
vars == <<id, seq, issued, observed, seenMax, clast,
          input, lastIndex, obj, slast,
          bufs, specs, created, hlast>>

\* ------------------------------------------------------------------ bounds
\* Clocks stop issuing/observing at this sequence number (above each base).
MaxSeq == 3
\* Input strings of the specifier grammar have at most this many characters.
MaxLen == 4
\* At most this many Spec instances live on the heap.
MaxSpecs == 3

\* --------------------------------------------------------- base64 codec
\* The alphabet of the base64 codec, in digit order.
rs64 ==
    <<"0","1","2","3","4","5","6","7","8","9",
      "A","B","C","D","E","F","G","H","I","J","K","L","M",
      "N","O","P","Q","R","S","T","U","V","W","X","Y","Z","_",
      "a","b","c","d","e","f","g","h","i","j","k","l","m",
      "n","o","p","q","r","s","t","u","v","w","x","y","z","~">>

Base64Chars == {rs64[i] : i \in 1..Len(rs64)}

Radix == Len(rs64)

DigitOf(c) == (CHOOSE i \in 1..Len(rs64) : rs64[i] = c) - 1

\* int2base(i, padlen): the digits of i, most significant first, left-padded
\* with "0" to at least padlen digits.
RECURSIVE int2base(_, _)
int2base(i, padlen) ==
    IF i = 0 /\ padlen <= 0 THEN <<>>
    ELSE Append(int2base(i \div Radix, padlen - 1), rs64[(i % Radix) + 1])

RECURSIVE base2int(_)
base2int(s) ==
    IF s = <<>> THEN 0
    ELSE base2int(SubSeq(s, 1, Len(s) - 1)) * Radix + DigitOf(s[Len(s)])

\* base64.reTok: one or more characters of the alphabet.
reTok_test(s) == Len(s) >= 1 /\ \A i \in 1..Len(s) : s[i] \in Base64Chars

\* Positions of "+" in s.
PlusAt(s) == {i \in 1..Len(s) : s[i] = "+"}

\* LamportTimestamp.reTokExt: <token>+<token>, anchored. The result is the
\* pair of groups <<m[1], m[2]>>, or <<>> for no match (null).
reTokExt_match(ts) ==
    IF /\ Cardinality(PlusAt(ts)) = 1
       /\ LET p == CHOOSE i \in PlusAt(ts) : TRUE
          IN  reTok_test(SubSeq(ts, 1, p - 1)) /\ reTok_test(SubSeq(ts, p + 1, Len(ts)))
    THEN LET p == CHOOSE i \in PlusAt(ts) : TRUE
         IN  <<SubSeq(ts, 1, p - 1), SubSeq(ts, p + 1, Len(ts))>>
    ELSE <<>>

\* ------------------------------------------------------------ LamportClock
\* Width of the sequence field of an issued timestamp.
SeqWidth == 5

ProcessIds == {<<"a">>, <<"b", "0">>}

\* The counter is unbounded in the code; the model stops at MaxSeq.
InRange(n) == n < MaxSeq

\* issueTimestamp: the string returned for a clock with this.seq = s.
issue_text(s, pid) == int2base(s, SeqWidth) \o <<"+">> \o pid

\* issueTimestamp: this.seq after the call (seq++).
\* (faulty variant: the counter is not advanced)
issue_noinc(s) == s

issue_seq(s) == s + 1

\* parseTimestamp: {seq, process} of a matching timestamp, or the thrown error.
parseTimestamp(ts) ==
    LET m == reTokExt_match(ts)
    IN  IF m = <<>> THEN [threw |-> "malformed timestamp"]
        ELSE [threw |-> "", seq |-> base2int(m[1]), process |-> m[2]]

\* checkTimestamp: this.seq after the call, given the parsed sequence number.
\* (faulty variants: a strict comparison; no increment past the observed one)
check_seq_gt(s, k) == IF k > s THEN k + 1 ELSE s

check_seq_noinc(s, k) == IF k >= s THEN k ELSE s

check_seq(s, k) == IF k >= s THEN k + 1 ELSE s

\* checkTimestamp: the value returned once parsing succeeded.
\* (faulty variant: the comparison's outcome is returned)
check_ret_cmp(s, k) == k >= s

check_ret(s, k) == TRUE

\* A timestamp that arrives from a process outside the model (its sequence
\* field is not padded), and strings that are no timestamps.
RemoteTimestamps == { <<"1", "+", "r">> }

MalformedTimestamps == { <<"0", "0", "0", "0", "1">>, <<"1", "+", "a", "+", "b">> }

IssuedBy(p) == {issued[p][i] : i \in 1..Len(issued[p])}

IssuedAll == UNION {IssuedBy(p) : p \in ProcessIds}

IssueTimestamp(p) ==
    /\ InRange(seq[p])
    /\ LET ts == issue_text(seq[p], id[p])
       IN  /\ seq' = [seq EXCEPT ![p] = issue_seq(seq[p])]
           /\ issued' = [issued EXCEPT ![p] = Append(@, ts)]
           /\ clast' = [op |-> "issue", clock |-> p, ts |-> ts,
                        before |-> seq[p], idBefore |-> id[p], result |-> "ok"]
    /\ UNCHANGED <<id, observed, seenMax, stringVars, heapVars>>

CheckTimestamp(p, ts) ==
    LET parsed == parseTimestamp(ts)
    IN  /\ parsed.threw = "" => InRange(parsed.seq)
        /\ observed' = [observed EXCEPT ![p] = TRUE]
        /\ IF parsed.threw # ""
           THEN /\ clast' = [op |-> "check", clock |-> p, ts |-> ts,
                             before |-> seq[p], idBefore |-> id[p],
                             result |-> "threw"]
                /\ UNCHANGED <<seq, seenMax>>
           ELSE /\ seq' = [seq EXCEPT ![p] = check_seq(seq[p], parsed.seq)]
                /\ seenMax' = [seenMax EXCEPT ![p] =
                                  IF ts \in IssuedAll /\ parsed.seq > @
                                  THEN parsed.seq ELSE @]
                /\ clast' = [op |-> "check", clock |-> p, ts |-> ts,
                             before |-> seq[p], idBefore |-> id[p],
                             result |-> IF check_ret(seq[p], parsed.seq)
                                        THEN "true" ELSE "false"]
        /\ UNCHANGED <<id, issued, stringVars, heapVars>>

Issue == \E p \in ProcessIds : IssueTimestamp(p)

Check ==
    \E p \in ProcessIds :
      \E ts \in IssuedAll \cup RemoteTimestamps \cup MalformedTimestamps :
        CheckTimestamp(p, ts)

ClockNext == Issue \/ Check

NoSpec == <<>>

\* Two freshly constructed clocks; the specifier side is at rest.
ClockInit ==
    /\ id = [p \in ProcessIds |-> p]
    /\ seq = [p \in ProcessIds |-> 0]
    /\ issued = [p \in ProcessIds |-> <<>>]
    /\ observed = [p \in ProcessIds |-> FALSE]
    /\ seenMax = [p \in ProcessIds |-> -1]
    /\ clast = [op |-> "new"]
    /\ input = <<>>
    /\ lastIndex = 0
    /\ obj = NoSpec
    /\ slast = [op |-> "none"]
    /\ bufs = <<>>
    /\ specs = <<>>
    /\ created = <<>>
    /\ hlast = [op |-> "none"]

ClockSpec == ClockInit /\ [][ClockNext]_vars

\* ------------------------------------------------------------------ Stamp
\* A Stamp object: its identity (ref; two objects are the same object iff
\* their refs are equal) and its value and origin strings.
Undefined == <<"undefined">>

Null == <<"null">>

Str0 == <<"0">>

ZERO == [type |-> "Stamp", ref |-> 0, value |-> Str0, origin |-> Str0]

\* One token of the grammar (Stamp.rsTok): a base64 word, or two joined by "+".
rsTok_test(t) ==
    \/ reTok_test(t)
    \/ /\ Cardinality(PlusAt(t)) = 1
       /\ LET p == CHOOSE i \in PlusAt(t) : TRUE
          IN  reTok_test(SubSeq(t, 1, p - 1)) /\ reTok_test(SubSeq(t, p + 1, Len(t)))

\* new Stamp(x): x missing or empty gives a zero stamp; a string "v+o" gives
\* value v and origin o, a string "v" gives value v and origin "0".
Stamp_new(x, ref) ==
    IF x = Undefined \/ x = <<>>
    THEN [type |-> "Stamp", ref |-> ref, value |-> Str0, origin |-> Str0]
    ELSE IF PlusAt(x) = {}
    THEN [type |-> "Stamp", ref |-> ref, value |-> x, origin |-> Str0]
    ELSE LET p == CHOOSE i \in PlusAt(x) : \A j \in PlusAt(x) : i <= j
         IN  [type |-> "Stamp", ref |-> ref, value |-> SubSeq(x, 1, p - 1),
              origin |-> SubSeq(x, p + 1, Len(x))]

\* new Stamp(value, origin)
Stamp_pair(v, o, ref) == [type |-> "Stamp", ref |-> ref, value |-> v, origin |-> o]

\* Stamp.toString / Stamp.string
Stamp_toString(t) ==
    IF t.origin = Str0 THEN t.value ELSE t.value \o <<"+">> \o t.origin

isZero(t) == t.value = Str0

Stamp_isEmpty(t) == t.value = Str0 /\ t.origin = Str0

\* Stamp.eq: structural equality.
eq(a, b) == a.value = b.value /\ a.origin = b.origin

\* ------------------------------------------------------------------- Spec
quants == <<"/", "#", "!", ".">>

QuantChars == {quants[i] : i \in 1..4}

quants_indexOf(q) == IF q \in QuantChars THEN (CHOOSE i \in 1..4 : quants[i] = q) ELSE -1

MaxOf(S) == CHOOSE x \in S : \A y \in S : y <= x

\* Spec.reSpec matched at the start of s, for the groups i..4 from position
\* pos: the captures of these groups (Undefined for a group that took no part),
\* or Null. Each group is optional and greedy; the match is anchored at the end.
RECURSIVE reSpec_from(_, _, _)
reSpec_from(s, pos, i) ==
    IF i > 4 THEN (IF pos = Len(s) + 1 THEN <<>> ELSE Null)
    ELSE LET ends == {e \in (pos + 1)..Len(s) :
                        /\ s[pos] = quants[i]
                        /\ rsTok_test(SubSeq(s, pos + 1, e))
                        /\ reSpec_from(s, e + 1, i + 1) # Null}
         IN  IF pos <= Len(s) /\ ends # {}
             THEN <<SubSeq(s, pos + 1, MaxOf(ends))>> \o reSpec_from(s, MaxOf(ends) + 1, i + 1)
             ELSE LET r == reSpec_from(s, pos, i + 1)
                  IN  IF r = Null THEN Null ELSE <<Undefined>> \o r

\* Spec.reSpec.exec(s) / .test(s) with the 'g' flag: the search starts at
\* lastIndex, where the anchored pattern can match only if lastIndex is 0; a
\* match leaves lastIndex at its end, a failure resets it to 0.
reSpec_exec(s, li) ==
    LET m == IF li = 0 THEN reSpec_from(s, 1, 1) ELSE Null
    IN  [m |-> m, lastIndex |-> IF m = Null THEN 0 ELSE Len(s)]

\* Spec.reSpec.lastIndex = 0 before exec (constructor) and before test (is).
ctor_lastIndex(li) == 0

\* (faulty variant: is() without the reset)
is_lastIndex_stale(li) == li

is_lastIndex(li) == 0

\* The constructor's test of a capture: m[i] !== null. A group that took no
\* part is undefined, which is not null.
ctor_captured(c) == c # Null

\* Identities base+1..base+4 for four new objects, none of them in use by a
\* live object (the least such block: identities carry no other meaning).
FreshBase(live) ==
    LET free == {b \in 0..(4 * Cardinality(live)) :
                   b % 4 = 0 /\ \A i \in 1..4 : b + i \notin live}
    IN  CHOOSE b \in free : \A c \in free : b <= c

\* new Spec(str) for a non-empty string, after a match m: every slot is
\* replaced by a new Stamp of its capture.
ctor_toks(m, base) ==
    [i \in 1..4 |-> IF ctor_captured(m[i]) THEN Stamp_new(m[i], base + i) ELSE ZERO]

\* new Spec(): four times Stamp.ZERO itself.
EmptyToks == [i \in 1..4 |-> ZERO]

NON_SPECIFIC_NOOP == EmptyToks

\* JavaScript values other than Stamp objects: strings and undefined.
JSString(chars) == [type |-> "string", chars |-> chars]

JSUndefined == [type |-> "undefined"]

\* new Spec(array): a Stamp element is kept as it is, anything else is made
\* into a new Stamp.
ctor_array(arr, base) ==
    [i \in 1..4 |-> IF arr[i].type = "Stamp" THEN arr[i]
                    ELSE Stamp_new(IF arr[i].type = "string" THEN arr[i].chars
                                   ELSE Undefined, base + i)]

\* toString: the test for emitting slot i, the loop, and the result.
\* (faulty variant: the name slot is never emitted)
toString_emits_nolast(toks, dtoks, i, ret) ==
    toks[i].ref # dtoks[i].ref /\ i < 4

toString_emits(toks, dtoks, i, ret) ==
    toks[i].ref # dtoks[i].ref \/ (i = 4 /\ ret = <<>>)

RECURSIVE toString_upto(_, _, _)
toString_upto(toks, dtoks, i) ==
    IF i = 0 THEN <<>>
    ELSE LET ret == toString_upto(toks, dtoks, i - 1)
         IN  IF toString_emits(toks, dtoks, i, ret)
             THEN ret \o <<quants[i]>> \o Stamp_toString(toks[i])
             ELSE ret

Spec_toString(toks, dtoks) ==
    LET ret == toString_upto(toks, dtoks, 4)
    IN  IF ret = <<>> THEN <<".", "0">> ELSE ret

\* A property read off a JavaScript value: a Stamp has an origin, a string
\* has none.
origin_of(v) == IF v.type = "Stamp" THEN v.origin ELSE Undefined

\* The accessors.
Spec_type(toks) == Stamp_toString(toks[1])

Spec_id(toks) == Stamp_toString(toks[2])

Spec_stamp(toks) == Stamp_toString(toks[3])

Spec_name(toks) == Stamp_toString(toks[4])

Spec_origin(toks) == origin_of(toks[3])

Spec_scope(toks) == origin_of(JSString(Spec_name(toks)))

Spec_stampop(toks) ==
    <<quants[3]>> \o Stamp_toString(toks[3]) \o <<quants[4]>> \o Stamp_toString(toks[4])

\* blank(except): the slots whose quant is not in except become Stamp.ZERO.
blank(toks, except) ==
    [i \in 1..4 |-> IF quants[i] \in except THEN toks[i] ELSE ZERO]

Spec_typeid(toks) == Spec_toString(blank(toks, {"/", "#"}), NON_SPECIFIC_NOOP)

\* fill(spec): the zero slots take the other Spec's tokens.
fill(toks, new_toks) ==
    [i \in 1..4 |-> IF isZero(toks[i]) THEN new_toks[i] ELSE toks[i]]

has(toks, quant) == ~isZero(toks[quants_indexOf(quant)])

isSameObject(toks, other) == eq(toks[1], other[1]) /\ eq(toks[2], other[2])

Spec_isEmpty(toks) == \A i \in 1..4 : Stamp_isEmpty(toks[i])

Getters == {"type", "id", "stamp", "name", "origin", "scope", "stampop", "typeid"}

Spec_get(toks, g) ==
    CASE g = "type" -> Spec_type(toks)
      [] g = "id" -> Spec_id(toks)
      [] g = "stamp" -> Spec_stamp(toks)
      [] g = "name" -> Spec_name(toks)
      [] g = "origin" -> Spec_origin(toks)
      [] g = "scope" -> Spec_scope(toks)
      [] g = "stampop" -> Spec_stampop(toks)
      [] g = "typeid" -> Spec_typeid(toks)

\* ------------------------------------------------- Spec on one input string
Alphabet == {"/", "#", "!", ".", "+", "a", "0"}

Strings(n) == UNION {[1..k -> Alphabet] : k \in 0..n}

TodoExample == <<"/","T","o","d","o","I","t","e","m","#","7","A","M","0","f","+","g","r","i","t","z","k","o",".","d","o","n","e","!","7","A","M","T","c","+","g","r","i","t","z","k","o">>

ObjectExample == <<"/","O","b","j","e","c","t","#","1","C","Q","K","n","+","0","r","1","g","1","n","!","0",".","o","n">>

Examples ==
    { TodoExample, ObjectExample, <<"X", "#", "Y">>, <<"/", "a", "%">>,
      <<"/", "a", "#", "a", "+", "0", "!", "0", ".", "a", "+", "a">>,
      <<".", "a", "!", "a", "#", "a">>, <<"/", "a", "/", "a", ".", "a">> }

Inputs == Strings(MaxLen) \cup Examples

RefsOf(toks) == IF toks = NoSpec THEN {} ELSE {toks[i].ref : i \in 1..4}

\* new Spec(src)
Construct(src, roundtrip) ==
    LET li == ctor_lastIndex(lastIndex)
        r == reSpec_exec(src, li)
    IN  /\ IF src = <<>>
           THEN /\ obj' = EmptyToks
                /\ slast' = [op |-> "new", arg |-> src, result |-> "ok",
                             prev |-> obj, roundtrip |-> roundtrip]
                /\ UNCHANGED lastIndex
           ELSE /\ lastIndex' = r.lastIndex
                /\ IF r.m = Null
                   THEN /\ slast' = [op |-> "new", arg |-> src, result |-> "invalid spec",
                                     prev |-> obj, roundtrip |-> roundtrip]
                        /\ UNCHANGED obj
                   ELSE /\ obj' = ctor_toks(r.m, FreshBase(RefsOf(obj)))
                        /\ slast' = [op |-> "new", arg |-> src, result |-> "ok",
                                     prev |-> obj, roundtrip |-> roundtrip]
        /\ UNCHANGED <<input, clockVars, heapVars>>

NewFromInput == Construct(input, FALSE)

\* new Spec(text) of a text that toString() has just returned.
NewFromText ==
    /\ slast.op = "toString" /\ slast.defaults = "undefined"
    /\ Construct(slast.text, TRUE)

\* Spec.is(input)
Is ==
    LET r == reSpec_exec(input, is_lastIndex(lastIndex))
    IN  /\ lastIndex' = r.lastIndex
        /\ slast' = [op |-> "is", arg |-> input, result |-> r.m # Null]
        /\ UNCHANGED <<input, obj, clockVars, heapVars>>

\* obj.toString(defaults), defaults being left out, a new empty Spec, or obj.
toStringCall(d) ==
    /\ obj # NoSpec
    /\ LET dtoks == CASE d = "undefined" -> NON_SPECIFIC_NOOP
                      [] d = "empty" -> EmptyToks
                      [] d = "self" -> obj
       IN  slast' = [op |-> "toString", defaults |-> d, dtoks |-> dtoks,
                     text |-> Spec_toString(obj, dtoks)]
    /\ UNCHANGED <<input, lastIndex, obj, clockVars, heapVars>>

\* obj.type, obj.id, ...
Get(g) ==
    /\ obj # NoSpec
    /\ slast' = [op |-> "get", prop |-> g, result |-> Spec_get(obj, g)]
    /\ UNCHANGED <<input, lastIndex, obj, clockVars, heapVars>>

\* obj.has(q)
Has(q) ==
    /\ obj # NoSpec
    /\ slast' = [op |-> "has", arg |-> q,
                 result |-> IF quants_indexOf(q) = -1 THEN "invalid quant"
                            ELSE IF has(obj, q) THEN "true" ELSE "false"]
    /\ UNCHANGED <<input, lastIndex, obj, clockVars, heapVars>>

ToStrings == \E d \in {"undefined", "empty", "self"} : toStringCall(d)

Gets == \E g \in Getters : Get(g)

Hass == \E q \in QuantChars \cup {"%"} : Has(q)

StringNext == NewFromInput \/ NewFromText \/ Is \/ ToStrings \/ Gets \/ Hass

\* No Spec made yet, one input string chosen; the clocks are at rest.
StringInit ==
    /\ input \in Inputs
    /\ lastIndex = 0
    /\ obj = NoSpec
    /\ slast = [op |-> "none"]
    /\ id = [p \in ProcessIds |-> p]
    /\ seq = [p \in ProcessIds |-> 0]
    /\ issued = [p \in ProcessIds |-> <<>>]
    /\ observed = [p \in ProcessIds |-> FALSE]
    /\ seenMax = [p \in ProcessIds |-> -1]
    /\ clast = [op |-> "none"]
    /\ bufs = <<>>
    /\ specs = <<>>
    /\ created = <<>>
    /\ hlast = [op |-> "none"]

StringSpec == StringInit /\ [][StringNext]_vars

\* ------------------------------------------------ Spec instances on a heap
\* restamp / rename: with an origin the new token is built from the pair,
\* without one the stamp is left to the array constructor.
with_origin(stamp, origin, ref) ==
    IF origin.type = "string" /\ origin.chars # <<>>
    THEN Stamp_pair(stamp.chars, origin.chars, ref)
    ELSE stamp

restamp(toks, stamp) == <<toks[1], toks[2], stamp, toks[4]>>

rename(toks, stamp) == <<toks[1], toks[2], toks[3], stamp>>

\* this._toks.slice(): the working array of fill and blank is a new array
\* (index n+1 on a heap of n arrays).
\* (faulty variant: the working array is this._toks itself)
slice_alias(n, b) == b

slice(n, b) == n + 1

LiveRefs == UNION {RefsOf(bufs[b]) : b \in 1..Len(bufs)}

HeapStrings == { <<"/", "a", "!", "0", "+", "b">> }

HeapArrays ==
    { <<JSString(<<"a">>), JSString(<<"b", "+", "c">>), JSUndefined, JSString(<<>>)>>,
      <<JSString(<<"a">>)>> }

Excepts == { {}, {"/", "#"} }

StampArgs == { JSString(<<"s">>) }

OriginArgs == { JSUndefined, JSString(<<"o">>) }

\* A new instance whose _toks is a new array holding toks.
Allocate(heap, toks, how, src) ==
    /\ bufs' = Append(heap, toks)
    /\ specs' = Append(specs, Len(heap) + 1)
    /\ created' = Append(created, [how |-> how, toks |-> toks, src |-> src])
    /\ hlast' = [op |-> how, result |-> "ok", made |-> Len(specs) + 1]

Throws(how, err) ==
    /\ hlast' = [op |-> how, result |-> err, made |-> 0]
    /\ UNCHANGED <<bufs, specs, created>>

\* new Spec()
HeapNewEmpty ==
    /\ Len(specs) < MaxSpecs
    /\ Allocate(bufs, EmptyToks, "new", 0)
    /\ UNCHANGED <<clockVars, stringVars>>

\* new Spec(str)
HeapNewString(str) ==
    /\ Len(specs) < MaxSpecs
    /\ LET r == reSpec_exec(str, ctor_lastIndex(lastIndex))
       IN  /\ lastIndex' = r.lastIndex
           /\ IF r.m = Null THEN Throws("new", "invalid spec")
              ELSE Allocate(bufs, ctor_toks(r.m, FreshBase(LiveRefs)), "new", 0)
    /\ UNCHANGED <<clockVars, input, obj, slast>>

\* new Spec(spec): the new instance shares the other's array.
HeapNewCopy(i) ==
    /\ Len(specs) < MaxSpecs
    /\ specs' = Append(specs, specs[i])
    /\ created' = Append(created, [how |-> "copy", toks |-> bufs[specs[i]], src |-> i])
    /\ hlast' = [op |-> "copy", result |-> "ok", made |-> Len(specs) + 1]
    /\ UNCHANGED <<bufs, clockVars, stringVars>>

\* new Spec(array)
HeapNewArray(arr) ==
    /\ Len(specs) < MaxSpecs
    /\ IF Len(arr) # 4 THEN Throws("array", "unrecognized parameter")
       ELSE Allocate(bufs, ctor_array(arr, FreshBase(LiveRefs)), "array", 0)
    /\ UNCHANGED <<clockVars, stringVars>>

\* The heap after fill/blank wrote `work` into its working array t: a new
\* working array is dropped when the call returns, an old one stays changed.
Written(t, work) == IF t > Len(bufs) THEN bufs ELSE [bufs EXCEPT ![t] = work]

\* a.fill(b)
Fill(i, j) ==
    /\ Len(specs) < MaxSpecs
    /\ LET t == slice(Len(bufs), specs[i])
           work == fill(bufs[specs[i]], bufs[specs[j]])
       IN  Allocate(Written(t, work), ctor_array(work, FreshBase(LiveRefs)), "fill", i)
    /\ UNCHANGED <<clockVars, stringVars>>

\* a.blank(except)
Blank(i, except) ==
    /\ Len(specs) < MaxSpecs
    /\ LET t == slice(Len(bufs), specs[i])
           work == blank(bufs[specs[i]], except)
       IN  Allocate(Written(t, work), ctor_array(work, FreshBase(LiveRefs)), "blank", i)
    /\ UNCHANGED <<clockVars, stringVars>>

\* a.restamp(stamp, origin)
Restamp(i, stamp, origin) ==
    /\ Len(specs) < MaxSpecs
    /\ LET base == FreshBase(LiveRefs)
           arr == restamp(bufs[specs[i]], with_origin(stamp, origin, base + 3))
       IN  Allocate(bufs, ctor_array(arr, base), "restamp", i)
    /\ UNCHANGED <<clockVars, stringVars>>

\* a.rename(stamp, origin)
Rename(i, stamp, origin) ==
    /\ Len(specs) < MaxSpecs
    /\ LET base == FreshBase(LiveRefs)
           arr == rename(bufs[specs[i]], with_origin(stamp, origin, base + 4))
       IN  Allocate(bufs, ctor_array(arr, base), "rename", i)
    /\ UNCHANGED <<clockVars, stringVars>>

\* a.toString(defaults): d = 0 stands for no argument.
HeapToString(i, d) ==
    /\ hlast' = [op |-> "toString", result |->
                    Spec_toString(bufs[specs[i]],
                                  IF d = 0 THEN NON_SPECIFIC_NOOP ELSE bufs[specs[d]]),
                 made |-> 0]
    /\ UNCHANGED <<bufs, specs, created, clockVars, stringVars>>

\* a.typeid, a.isSameObject(b), a.isEmpty()
HeapRead(i, j) ==
    /\ hlast' = [op |-> "read", made |-> 0,
                 result |-> <<Spec_typeid(bufs[specs[i]]),
                              isSameObject(bufs[specs[i]], bufs[specs[j]]),
                              Spec_isEmpty(bufs[specs[i]])>>]
    /\ UNCHANGED <<bufs, specs, created, clockVars, stringVars>>

Instances == 1..Len(specs)

NewStrings == \E str \in HeapStrings : HeapNewString(str)

NewCopies == \E i \in Instances : HeapNewCopy(i)

NewArrays == \E arr \in HeapArrays : HeapNewArray(arr)

Fills == \E i, j \in Instances : Fill(i, j)

Blanks == \E i \in Instances : \E except \in Excepts : Blank(i, except)

Restamps == \E i \in Instances : \E st \in StampArgs : \E o \in OriginArgs : Restamp(i, st, o)

Renames == \E i \in Instances : \E st \in StampArgs : Rename(i, st, JSString(<<"o">>))

ToStrings2 == \E i \in Instances : \E d \in {0, 1} : HeapToString(i, d)

Reads == \E i \in Instances : HeapRead(i, 1)

HeapNext ==
    \/ HeapNewEmpty \/ NewStrings \/ NewCopies \/ NewArrays
    \/ Fills \/ Blanks \/ Restamps \/ Renames
    \/ ToStrings2 \/ Reads

\* No Spec instance yet; the clocks and the string side are at rest.
HeapInit ==
    /\ bufs = <<>>
    /\ specs = <<>>
    /\ created = <<>>
    /\ hlast = [op |-> "none"]
    /\ id = [p \in ProcessIds |-> p]
    /\ seq = [p \in ProcessIds |-> 0]
    /\ issued = [p \in ProcessIds |-> <<>>]
    /\ observed = [p \in ProcessIds |-> FALSE]
    /\ seenMax = [p \in ProcessIds |-> -1]
    /\ clast = [op |-> "none"]
    /\ input = <<>>
    /\ lastIndex = 0
    /\ obj = NoSpec
    /\ slast = [op |-> "none"]

HeapSpec == HeapInit /\ [][HeapNext]_vars

\* ------------------------------------------------- claims on LamportClock
\* The sequence number an issued or observed timestamp decodes to.
SeqOf(ts) == parseTimestamp(ts).seq

\* C1: a clock's seq never decreases over issueTimestamp and checkTimestamp
\* calls, the sequence numbers of the timestamps it issues are strictly
\* increasing, and as long as no checkTimestamp call was made on it the
\* timestamps issued by a fresh clock carry exactly 0, 1, ..., n-1.
C1_Monotonic ==
    /\ clast.op \in {"issue", "check"} => seq[clast.clock] >= clast.before
    /\ \A p \in ProcessIds :
         /\ \A i, j \in 1..Len(issued[p]) :
              i < j => SeqOf(issued[p][i]) < SeqOf(issued[p][j])
         /\ ~observed[p] =>
              \A i \in 1..Len(issued[p]) : SeqOf(issued[p][i]) = i - 1

\* A clock that issued, observed a later timestamp, and issued again: its
\* second timestamp skips numbers; while the other one counted 0, 1.
C1_Witness ==
    \E p, q \in ProcessIds :
      /\ observed[p] /\ Len(issued[p]) >= 2
      /\ SeqOf(issued[p][2]) > SeqOf(issued[p][1]) + 1
      /\ ~observed[q] /\ Len(issued[q]) >= 2

\* C2: checkTimestamp on a clock with seq = s, given a well-formed timestamp
\* that decodes to k, leaves seq = k+1 when k >= s and seq = s when k < s,
\* and leaves the clock's id alone.
C2_CausalMerge ==
    (clast.op = "check" /\ clast.result # "threw") =>
        LET k == SeqOf(clast.ts)
            s == clast.before
        IN  /\ k >= s => seq[clast.clock] = k + 1
            /\ k < s => seq[clast.clock] = s
            /\ id[clast.clock] = clast.idBefore

\* The boundary case k = s, with s > 0.
C2_Witness ==
    /\ clast.op = "check" /\ clast.result # "threw"
    /\ clast.before > 0
    /\ SeqOf(clast.ts) = clast.before
    /\ seq[clast.clock] = clast.before + 1

\* C3: a timestamp a clock issues carries a sequence number strictly greater
\* than that of every timestamp, issued by any clock, that it had observed.
C3_CausallyAfter ==
    clast.op = "issue" => SeqOf(clast.ts) > seenMax[clast.clock]

\* The first timestamp of a clock that had observed another clock's
\* timestamp numbered 1 or more.
C3_Witness ==
    /\ clast.op = "issue"
    /\ Len(issued[clast.clock]) = 1
    /\ seenMax[clast.clock] >= 1

\* C4 (as stated): checkTimestamp returns true for every input string.
C4_AlwaysSucceeds ==
    clast.op = "check" => clast.result = "true"

\* C4 (amended): checkTimestamp returns true for every input string that
\* matches the timestamp grammar, whatever the clock's state; a string that
\* does not match raises the malformed-timestamp error and changes nothing.
C4_SucceedsOnWellFormed ==
    clast.op = "check" =>
        IF reTokExt_match(clast.ts) # <<>>
        THEN clast.result = "true"
        ELSE clast.result = "threw" /\ seq[clast.clock] = clast.before

\* An out-of-date timestamp (k < s) is accepted all the same.
C4_Witness ==
    /\ clast.op = "check" /\ clast.result = "true"
    /\ SeqOf(clast.ts) < clast.before

\* --------------------------------------------------------- claims on Spec
\* The grammar, stated on the string: it starts with a quant, its quants come
\* in the order / # ! . without repeats, and what follows each quant, up to
\* the next quant or the end, is one token.
QuantAt(s) == {i \in 1..Len(s) : s[i] \in QuantChars}

SegmentAfter(s, i) ==
    LET later == {j \in QuantAt(s) : j > i}
        stop == IF later = {} THEN Len(s) + 1
                ELSE CHOOSE j \in later : \A k \in later : j <= k
    IN  SubSeq(s, i + 1, stop - 1)

InGrammar(s) ==
    /\ Len(s) >= 1
    /\ s[1] \in QuantChars
    /\ \A i, j \in QuantAt(s) :
         i < j => quants_indexOf(s[i]) < quants_indexOf(s[j])
    /\ \A i \in QuantAt(s) : rsTok_test(SegmentAfter(s, i))

CharsOf(s) == {s[i] : i \in 1..Len(s)}

C6_TodoItem ==
    (slast.op = "new" /\ slast.arg = TodoExample) =>
        /\ slast.result = "ok"
        /\ Spec_type(obj) = <<"T","o","d","o","I","t","e","m">>
        /\ Spec_id(obj) = <<"7","A","M","0","f","+","g","r","i","t","z","k","o">>
        /\ Spec_name(obj) = <<"d","o","n","e">>
        /\ Spec_stamp(obj) = <<"7","A","M","T","c","+","g","r","i","t","z","k","o">>

\* Structural equality of two Specs.
SameToks(a, b) == \A i \in 1..4 : eq(a[i], b[i])

\* C7: the text that toString() returns for a constructed Spec is accepted
\* by the constructor, and the Spec made from it equals the first one in all
\* four slots.
C7_RoundTrip ==
    (slast.op = "new" /\ slast.roundtrip) =>
        /\ slast.result = "ok"
        /\ SameToks(obj, slast.prev)

\* A round trip whose text differs from the input it began with, on a Spec
\* with a name.
C7_Witness ==
    /\ slast.op = "new" /\ slast.roundtrip /\ slast.result = "ok"
    /\ slast.arg # input
    /\ ~isZero(obj[4])

\* The delta encoding of toks against dtoks, by the tokens' values.
DeltaSlots(toks, dtoks) ==
    LET differ == {i \in 1..4 : ~eq(toks[i], dtoks[i])}
    IN  IF differ \cap {1, 2, 3} = {} THEN differ \cup {4} ELSE differ

RECURSIVE DeltaText(_, _, _)
DeltaText(toks, slots, i) ==
    IF i = 0 THEN <<>>
    ELSE DeltaText(toks, slots, i - 1) \o
         (IF i \in slots THEN <<quants[i]>> \o Stamp_toString(toks[i]) ELSE <<>>)

\* C8: toString(defaults) emits quant + token for a slot iff the slot's token
\* does not equal that of defaults (all zero when left out), the name slot
\* being emitted too when nothing was emitted before it; the text is never
\* empty, and ".0" for the empty Spec.
C8_DeltaEncoding ==
    slast.op = "toString" =>
        /\ slast.text = DeltaText(obj, DeltaSlots(obj, slast.dtoks), 4)
        /\ slast.text # <<>>
        /\ SameToks(obj, EmptyToks) => slast.text = <<".", "0">>

\* C10: scope is the origin held in the Name token.
C10_Scope ==
    (slast.op = "get" /\ slast.prop = "scope") => slast.result = obj[4].origin

Combinators == {"fill", "blank", "restamp", "rename"}

\* C9: every Spec instance holds, at all times, the four tokens it was
\* created with, whatever was called on it or on an instance that shares its
\* array since; and what fill, blank, restamp and rename return is a new
\* instance whose array no earlier instance holds.
C9_Immutable ==
    \A i \in 1..Len(specs) :
      /\ bufs[specs[i]] = created[i].toks
      /\ created[i].how \in Combinators =>
           \A j \in 1..(i - 1) : specs[j] # specs[i]

\* A copy-constructed instance and its original share an array, and a
\* combinator has since been called on one of them, giving a Spec with
\* other tokens.
C9_Witness ==
    \E i, j, k \in 1..Len(specs) :
      /\ i < j /\ j < k
      /\ created[j].how = "copy" /\ specs[j] = specs[i]
      /\ created[k].how \in Combinators /\ created[k].src \in {i, j}
      /\ bufs[specs[k]] # bufs[specs[i]]

====
